---- MODULE Spec2Model ----
(***************************************************************************)
(* A model of the texture data-layout and transfer core of tfjs-core:      *)
(* src/kernels/webgl/gpgpu_util.ts (capability resolution, texture         *)
(* allocation, upload and download of matrices), and of Ops.range and     *)
(* Ops.multinomial of src/math/array_ops.ts.                               *)
(*                                                                         *)
(* GL constants are modelled by their names ("RGBA", "FLOAT", ...); a      *)
(* constant a context does not define, and a variable the code never       *)
(* assigns, is "undefined"; a null handle is "null".  A call that throws   *)
(* is a result record with threw = TRUE.                                   *)
(***************************************************************************)
EXTENDS Integers, Sequences, FiniteSets, TLC

VARIABLES
  ENV,            \* the environment's feature flags (read through ENV.get)
  LOOKUP,         \* the module-level constant-to-name table (line 108)
  textureConfig,  \* the descriptor the caller holds (last one returned)
  lastCall,       \* the last call made: operation, inputs, outcome
  remembered,     \* an earlier getTextureConfig call, kept for comparison
  texture,        \* the GL texture object the caller owns
  boundTexture,   \* the context's TEXTURE_2D binding
  glLog,          \* the GL commands the last call issued, in order
  glBuffers,      \* the context's buffer objects and PIXEL_PACK_BUFFER binding
  asyncCalls      \* the calls of downloadMatrixFromOutputTextureAsync made

vars == <<ENV, LOOKUP, textureConfig, lastCall, remembered,
          texture, boundTexture, glLog, glBuffers, asyncCalls>>

asyncVars == <<glBuffers, asyncCalls>>

Undefined == "undefined"
Null == "null"

(***************************************************************************)
(* Contexts, extension handles and environments.                           *)
(***************************************************************************)

\* The constants of a rendering context: a WebGL1 context defines neither
\* RED, R32F, R16F nor HALF_FLOAT (the code reads them through `glany`).
GLContext(version) ==
  [version |-> version,
   RGBA |-> "RGBA", UNSIGNED_BYTE |-> "UNSIGNED_BYTE", FLOAT |-> "FLOAT",
   RED |-> IF version = 2 THEN "RED" ELSE Undefined,
   R32F |-> IF version = 2 THEN "R32F" ELSE Undefined,
   R16F |-> IF version = 2 THEN "R16F" ELSE Undefined,
   HALF_FLOAT |-> IF version = 2 THEN "HALF_FLOAT" ELSE Undefined,
   PIXEL_PACK_BUFFER |->
     IF version = 2 THEN "PIXEL_PACK_BUFFER" ELSE Undefined]

\* The textureHalfFloatExtension argument: null, or the extension object.
NoExtension == [isNull |-> TRUE, HALF_FLOAT_OES |-> Undefined]
HalfFloatExtension == [isNull |-> FALSE, HALF_FLOAT_OES |-> "HALF_FLOAT_OES"]
ExtensionHandles == {NoExtension, HalfFloatExtension}

Environments ==
  [WEBGL_VERSION : {1, 2},
   WEBGL_RENDER_FLOAT_ENABLED : BOOLEAN,
   WEBGL_DOWNLOAD_FLOAT_ENABLED : BOOLEAN]

(***************************************************************************)
(* getTextureConfig (lines 110-231).                                       *)
(***************************************************************************)

Put(f, k, v) == [x \in (DOMAIN f) \cup {k} |-> IF x = k THEN v ELSE f[x]]

PutIf(c, f, k, v) == IF c THEN Put(f, k, v) ELSE f

\* Lines 116-132: the writes to LOOKUP, in the code's order.
LookupAfter(lookup, gl, ext) ==
  LET l1 == Put(lookup, gl.RGBA, "RGBA")
      l2 == Put(l1, gl.UNSIGNED_BYTE, "UNSIGNED_BYTE")
      l3 == PutIf(gl.RED # Undefined, l2, gl.RED, "RED")
      l4 == PutIf(gl.R32F # Undefined, l3, gl.R32F, "RGBA")
      l5 == PutIf(gl.HALF_FLOAT # Undefined, l4, gl.HALF_FLOAT, "HALF_FLOAT")
      l6 == PutIf(gl.FLOAT # Undefined, l5, gl.FLOAT, "FLOAT")
  IN  PutIf(~ext.isNull, l6, ext.HALF_FLOAT_OES, "HALF_FLOAT_OES")

NoConfig ==
  [internalFormat |-> Undefined, internalFormatHalfFloat |-> Undefined,
   textureFormat |-> Undefined, downloadTextureFormat |-> Undefined,
   downloadUnpackNumChannels |-> 0, downloadTextureType |-> Undefined,
   defaultTextureType |-> Undefined, defaultNumChannels |-> 0,
   textureTypeHalfFloat |-> Undefined, textureTypeUpload |-> Undefined,
   textureTypeRender |-> Undefined]

\* A mutant of ConfigThrows: a null handle is read as an object without
\* the constant, and the call goes on.
ConfigThrows_NullTolerated(ext, env) == FALSE

\* Reading a property of a null extension handle throws a TypeError: on
\* line 173 (legacy tier) and on line 196 (either tier), both reached only
\* when float rendering is disabled.
ConfigThrows(ext, env) ==
  ~env.WEBGL_RENDER_FLOAT_ENABLED /\ ext.isNull

\* A mutant of TextureTypeUpload: the upload type follows the render type.
TextureTypeUpload_FollowsRender(gl, ext, env) ==
  IF env.WEBGL_RENDER_FLOAT_ENABLED THEN gl.FLOAT ELSE ext.HALF_FLOAT_OES

\* Line 152: the upload type, assigned once and in no branch.
TextureTypeUpload(gl, ext, env) == gl.FLOAT

\* Lines 193-197.
TextureTypeRender(gl, ext, env) ==
  IF env.WEBGL_RENDER_FLOAT_ENABLED THEN gl.FLOAT ELSE ext.HALF_FLOAT_OES

\* Lines 152-230: the descriptor returned when no property read throws.
ConfigValue(gl, ext, env) ==
  LET modern == env.WEBGL_VERSION = 2
      render == env.WEBGL_RENDER_FLOAT_ENABLED
  IN
  [internalFormat |-> IF modern THEN gl.R32F ELSE gl.RGBA,
   internalFormatHalfFloat |-> IF modern THEN gl.R16F ELSE gl.RGBA,
   textureFormat |-> IF modern THEN gl.RED ELSE gl.RGBA,
   downloadTextureFormat |-> gl.RGBA,
   downloadUnpackNumChannels |-> 4,
   downloadTextureType |->
     IF env.WEBGL_DOWNLOAD_FLOAT_ENABLED THEN gl.FLOAT ELSE gl.UNSIGNED_BYTE,
   defaultTextureType |->
     IF modern \/ render THEN gl.FLOAT ELSE ext.HALF_FLOAT_OES,
   defaultNumChannels |-> IF modern THEN 1 ELSE 4,
   textureTypeHalfFloat |->
     IF modern THEN gl.HALF_FLOAT
     ELSE IF ~render THEN ext.HALF_FLOAT_OES ELSE Undefined,
   textureTypeUpload |-> TextureTypeUpload(gl, ext, env),
   textureTypeRender |-> TextureTypeRender(gl, ext, env)]

getTextureConfig(gl, ext, env) ==
  IF ConfigThrows(ext, env)
    THEN [threw |-> TRUE, value |-> NoConfig]
    ELSE [threw |-> FALSE, value |-> ConfigValue(gl, ext, env)]

(***************************************************************************)
(* tex_util: shapes and the unpacked / packed codecs.                      *)
(***************************************************************************)

Zeros(n) == [i \in 1..n |-> 0]

\* What a typed array stores when it is given an element read past the end
\* of another array (undefined converts to NaN).
NaN == -1

CeilDiv2(n) == (n + 1) \div 2

getUnpackedMatrixTextureShapeWidthHeight(rows, columns) == <<columns, rows>>

getPackedMatrixTextureShapeWidthHeight(rows, columns) ==
  <<CeilDiv2(columns), CeilDiv2(rows)>>

getUnpackedArraySizeFromMatrixSize(matrixSize, channelsPerTexture) ==
  matrixSize * channelsPerTexture

getPackedRGBAArraySizeFromMatrixShape(rows, columns) ==
  LET wh == getPackedMatrixTextureShapeWidthHeight(rows, columns)
  IN  wh[1] * wh[2] * 4

\* matrix[src] goes to unpackedArray[src * channelsPerTexture]; the other
\* slots of each texel keep what the buffer held (0-based in the source).
encodeMatrixToUnpackedArray(matrix, unpackedArray, channelsPerTexture) ==
  [i \in 1..Len(unpackedArray) |->
     IF (i - 1) % channelsPerTexture = 0
        /\ (i - 1) \div channelsPerTexture < Len(matrix)
       THEN matrix[((i - 1) \div channelsPerTexture) + 1]
       ELSE unpackedArray[i]]

\* matrix[dst] is unpackedArray[dst * channelsPerTexture].
decodeMatrixFromUnpackedArray(unpackedArray, matrix, channelsPerTexture) ==
  [i \in 1..Len(matrix) |->
     IF (i - 1) * channelsPerTexture + 1 <= Len(unpackedArray)
       THEN unpackedArray[(i - 1) * channelsPerTexture + 1]
       ELSE matrix[i]]

\* The element of a row-major matrix at (row, col), read as a typed array
\* reads it: NaN past the end.
MatrixAt(matrix, columns, row, col) ==
  LET idx == row * columns + col + 1
  IN  IF idx <= Len(matrix) THEN matrix[idx] ELSE NaN

\* Texel (px, py) holds the 2x2 block at (2py, 2px) in R, G, B, A; a
\* position outside (rows, columns) is left 0.
encodeMatrixToPackedRGBA(matrix, rows, columns, packedRGBA) ==
  LET w == CeilDiv2(columns)
  IN  [i \in 1..Len(packedRGBA) |->
        LET texel == (i - 1) \div 4
            k == (i - 1) % 4
            row == 2 * (texel \div w) + (k \div 2)
            col == 2 * (texel % w) + (k % 2)
        IN  IF row < rows /\ col < columns
              THEN MatrixAt(matrix, columns, row, col)
              ELSE packedRGBA[i]]

(***************************************************************************)
(* The GL context: commands and their effect.  A GL state `st` is          *)
(*   texture       the caller's texture object                             *)
(*   boundTexture  the TEXTURE_2D binding: Null, "texture" (the caller's   *)
(*                 texture) or "stale" (an object the caller dropped)      *)
(*   log           the commands issued so far by the running call          *)
(*   threw         the running call has thrown                             *)
(*   target        the host buffer readPixels wrote                        *)
(***************************************************************************)

MaxTextureSize == 2   \* gl.MAX_TEXTURE_SIZE of the platform

\* Channels a texel stores under a format: getTextureConfig pairs the
\* single-channel formats with 1 channel and RGBA with 4.
ChannelsPerTexel(format) ==
  IF format = "RGBA" THEN 4
  ELSE IF format \in {"RED", "R32F", "R16F"} THEN 1
  ELSE 0

NoTexture ==
  [exists |-> FALSE, role |-> "none", numChannels |-> 0,
   width |-> 0, height |-> 0,
   internalFormat |-> Undefined, textureFormat |-> Undefined,
   textureType |-> Undefined,
   wrapS |-> "REPEAT", wrapT |-> "REPEAT",
   minFilter |-> "NEAREST_MIPMAP_LINEAR", magFilter |-> "LINEAR",
   data |-> <<>>,
   source |-> [op |-> "none"],   \* the upload that wrote the data last
   shape |-> <<0, 0>>]           \* the width and height it was created with

\* The context's buffer objects: none created, none bound to
\* PIXEL_PACK_BUFFER.  A buffer has a size in bytes and, once a read has
\* filled it, the elements read.
NullBuffer == 0   \* the null buffer handle; buffers are numbered from 1

NoBuffers == [bound |-> NullBuffer, store |-> <<>>]

NoTarget == [kind |-> "none", data |-> <<>>]

\* Texel number `t` (row-major, 0-based) of the texture, as the four
\* channels a framebuffer read returns: a single-channel texel reads as
\* (R, 0, 0, 1).
TexelRGBA(tex, t, k) ==
  LET ch == ChannelsPerTexel(tex.internalFormat)
  IN  IF ch = 4 THEN tex.data[4 * t + k + 1]
      ELSE IF k = 0 THEN tex.data[t + 1]
      ELSE IF k = 3 THEN 1
      ELSE 0

\* A float channel converted to an unsigned normalized byte.
ToByte(v) == IF v >= 1 THEN 255 ELSE 0

\* Bytes of one element of a pixel read of the given type.
BytesPerElement(type) ==
  IF type = "FLOAT" THEN 4 ELSE IF type = "UNSIGNED_BYTE" THEN 1 ELSE 2

\* The RGBA elements a read of a width x height extent returns, of the
\* given type; `old` is what the destination held.  The channels of a
\* byte texture are read as the bytes they are.
PixelsRead(tex, width, height, type, old) ==
  [i \in 1..Len(old) |->
     LET p == (i - 1) \div 4
         k == (i - 1) % 4
         x == p % width
         y == p \div width
     IN  IF y < height /\ x < tex.width /\ y < tex.height
           THEN IF type = "FLOAT" \/ tex.textureType = "UNSIGNED_BYTE"
                  THEN TexelRGBA(tex, y * tex.width + x, k)
                  ELSE ToByte(TexelRGBA(tex, y * tex.width + x, k))
           ELSE old[i]]

\* Whether the context rejects the command in this state (INVALID_VALUE /
\* INVALID_OPERATION): a texture command with nothing bound, a write whose
\* source holds too few elements or whose format is not the texture's, a
\* read whose destination is of the wrong array type or too small.
GLRejects(c, st) ==
  CASE c.cmd = "texParameteri" -> st.boundTexture # "texture"
    [] c.cmd = "texImage2D" ->
         \/ st.boundTexture # "texture"
         \/ c.width > MaxTextureSize \/ c.height > MaxTextureSize
    [] c.cmd = "texSubImage2D" ->
         \/ st.boundTexture # "texture"
         \/ c.format # st.texture.textureFormat
         \/ c.width > st.texture.width \/ c.height > st.texture.height
         \/ Len(c.data) < c.width * c.height * ChannelsPerTexel(c.format)
    [] c.cmd = "readPixels" /\ c.target.kind # "PIXEL_PACK_BUFFER" ->
         \/ ~st.texture.exists
         \/ st.buffers.bound # NullBuffer
         \/ c.type = "FLOAT" /\ c.target.kind # "Float32Array"
         \/ c.type = "UNSIGNED_BYTE" /\ c.target.kind # "Uint8Array"
         \/ c.type \notin {"FLOAT", "UNSIGNED_BYTE"}
         \/ Len(c.target.data) < c.width * c.height * 4
    [] c.cmd = "readPixels" /\ c.target.kind = "PIXEL_PACK_BUFFER" ->
         \/ ~st.texture.exists
         \/ st.buffers.bound = NullBuffer
         \/ c.type \notin {"FLOAT", "UNSIGNED_BYTE"}
         \/ st.buffers.store[st.buffers.bound].size
              < c.width * c.height * 4 * BytesPerElement(c.type)
    [] c.cmd = "bindBuffer" -> c.target = Undefined
    [] c.cmd = "bufferData" ->
         c.target = Undefined \/ st.buffers.bound = NullBuffer
    [] OTHER -> FALSE

GLApply(c, st) ==
  CASE c.cmd = "createTexture" ->
         [st EXCEPT !.texture = [NoTexture EXCEPT !.exists = TRUE],
                    !.boundTexture =
                      IF st.boundTexture = Null THEN Null ELSE "stale"]
    [] c.cmd = "bindTexture" -> [st EXCEPT !.boundTexture = c.texture]
    [] c.cmd = "texParameteri" ->
         IF c.pname = "TEXTURE_WRAP_S"
           THEN [st EXCEPT !.texture.wrapS = c.param]
         ELSE IF c.pname = "TEXTURE_WRAP_T"
           THEN [st EXCEPT !.texture.wrapT = c.param]
         ELSE IF c.pname = "TEXTURE_MIN_FILTER"
           THEN [st EXCEPT !.texture.minFilter = c.param]
         ELSE [st EXCEPT !.texture.magFilter = c.param]
    [] c.cmd = "texImage2D" ->
         [st EXCEPT !.texture.width = c.width,
                    !.texture.height = c.height,
                    !.texture.internalFormat = c.internalFormat,
                    !.texture.textureFormat = c.format,
                    !.texture.textureType = c.type,
                    !.texture.data =
                      IF "pixels" \in DOMAIN c
                        THEN c.pixels
                        ELSE Zeros(c.width * c.height
                                     * ChannelsPerTexel(c.internalFormat))]
    [] c.cmd = "texSubImage2D" ->
         LET ch == ChannelsPerTexel(c.format)
             tw == st.texture.width
         IN  [st EXCEPT !.texture.data =
               [i \in 1..Len(st.texture.data) |->
                  LET t == (i - 1) \div ch
                      k == (i - 1) % ch
                      x == t % tw
                      y == t \div tw
                  IN  IF x < c.width /\ y < c.height
                        THEN c.data[(y * c.width + x) * ch + k + 1]
                        ELSE st.texture.data[i]]]
    [] c.cmd = "readPixels" /\ c.target.kind # "PIXEL_PACK_BUFFER" ->
         [st EXCEPT !.target =
            [kind |-> c.target.kind,
             data |-> PixelsRead(st.texture, c.width, c.height, c.type,
                                 c.target.data)]]
    [] c.cmd = "readPixels" /\ c.target.kind = "PIXEL_PACK_BUFFER" ->
         [st EXCEPT !.buffers.store[st.buffers.bound] =
            [size |-> @.size, kind |-> c.type,
             data |-> PixelsRead(st.texture, c.width, c.height, c.type,
                                 Zeros(c.width * c.height * 4))]]
    [] c.cmd = "createBuffer" ->
         [st EXCEPT !.buffers.store =
            Append(@, [size |-> 0, kind |-> "none", data |-> <<>>])]
    [] c.cmd = "bindBuffer" -> [st EXCEPT !.buffers.bound = c.buffer]
    [] c.cmd = "bufferData" ->
         [st EXCEPT !.buffers.store[st.buffers.bound] =
            [size |-> c.size, kind |-> "none", data |-> <<>>]]

\* webgl_util.callAndCheck over a list of commands: each is issued and
\* then checked; the command numbered `failAt` (0: none) has the context
\* report an error.  An erring command has no effect, the check throws,
\* and the commands after it are never issued.
RECURSIVE callAndCheckAll(_, _, _, _)
callAndCheckAll(cmds, i, failAt, st) ==
  IF i > Len(cmds) THEN st
  ELSE LET c == cmds[i]
           issued == [st EXCEPT !.log = Append(st.log, c)]
       IN  IF i = failAt \/ GLRejects(c, st)
             THEN [issued EXCEPT !.threw = TRUE]
             ELSE callAndCheckAll(cmds, i + 1, failAt, GLApply(c, issued))

\* webgl_util.validateTextureSize: whether it lets the size through.
validateTextureSize(width, height) ==
  /\ width > 0 /\ height > 0
  /\ width <= MaxTextureSize /\ height <= MaxTextureSize

(***************************************************************************)
(* Texture allocation (lines 239-314).                                     *)
(***************************************************************************)

\* Variant of createAndConfigureTextureCommands without the final unbind.
createAndConfigureTextureCommands_NoUnbind(width, height, internalFormat, textureFormat, textureType) ==
  << [cmd |-> "createTexture"],
     [cmd |-> "bindTexture", texture |-> "texture"],
     [cmd |-> "texParameteri", pname |-> "TEXTURE_WRAP_S",
      param |-> "CLAMP_TO_EDGE"],
     [cmd |-> "texParameteri", pname |-> "TEXTURE_WRAP_T",
      param |-> "CLAMP_TO_EDGE"],
     [cmd |-> "texParameteri", pname |-> "TEXTURE_MIN_FILTER",
      param |-> "NEAREST"],
     [cmd |-> "texParameteri", pname |-> "TEXTURE_MAG_FILTER",
      param |-> "NEAREST"],
     [cmd |-> "texImage2D", internalFormat |-> internalFormat,
      width |-> width, height |-> height, format |-> textureFormat,
      type |-> textureType, data |-> Null] >>

\* The commands of createAndConfigureTexture, lines 245-269, in order.
createAndConfigureTextureCommands(width, height, internalFormat, textureFormat, textureType) ==
  << [cmd |-> "createTexture"],
     [cmd |-> "bindTexture", texture |-> "texture"],
     [cmd |-> "texParameteri", pname |-> "TEXTURE_WRAP_S",
      param |-> "CLAMP_TO_EDGE"],
     [cmd |-> "texParameteri", pname |-> "TEXTURE_WRAP_T",
      param |-> "CLAMP_TO_EDGE"],
     [cmd |-> "texParameteri", pname |-> "TEXTURE_MIN_FILTER",
      param |-> "NEAREST"],
     [cmd |-> "texParameteri", pname |-> "TEXTURE_MAG_FILTER",
      param |-> "NEAREST"],
     [cmd |-> "texImage2D", internalFormat |-> internalFormat,
      width |-> width, height |-> height, format |-> textureFormat,
      type |-> textureType, data |-> Null],
     [cmd |-> "bindTexture", texture |-> Null] >>

\* Whether the running call got a texture object from createTexture.
Created(st) ==
  /\ st.log # <<>>
  /\ st.log[1].cmd = "createTexture"
  /\ ~(Len(st.log) = 1 /\ st.threw)

\* Variant of createAndConfigureTexture that creates and binds the texture
\* before it checks the size.
createAndConfigureTexture_ValidatesLate(st, width, height, numChannels, internalFormat, textureFormat, textureType, failAt) ==
  LET cmds == createAndConfigureTextureCommands(
                width, height, internalFormat, textureFormat, textureType)
      made == callAndCheckAll(SubSeq(cmds, 1, 2), 1, failAt, st)
      r == callAndCheckAll(cmds, 1, failAt, st)
  IN  IF ~validateTextureSize(width, height)
        THEN [made EXCEPT !.threw = TRUE]
        ELSE IF Created(r)
               THEN [r EXCEPT !.texture.numChannels = numChannels]
               ELSE r

\* Lines 239-271: the size check (line 244), then the commands; the
\* numChannels argument is not used by the commands.
createAndConfigureTexture(st, width, height, numChannels, internalFormat, textureFormat, textureType, failAt) ==
  IF ~validateTextureSize(width, height)
    THEN [st EXCEPT !.threw = TRUE]
    ELSE LET r == callAndCheckAll(
                    createAndConfigureTextureCommands(
                      width, height, internalFormat, textureFormat,
                      textureType),
                    1, failAt, st)
         IN  IF Created(r)
               THEN [r EXCEPT !.texture.numChannels = numChannels]
               ELSE r

createUploadMatrixTexture(st, rows, columns, cfg, failAt) ==
  LET wh == getUnpackedMatrixTextureShapeWidthHeight(rows, columns)
  IN  createAndConfigureTexture(st, wh[1], wh[2], 1, cfg.internalFormat,
        cfg.textureFormat, cfg.textureTypeUpload, failAt)

createRenderMatrixTexture(st, rows, columns, cfg, failAt) ==
  LET wh == getUnpackedMatrixTextureShapeWidthHeight(rows, columns)
  IN  createAndConfigureTexture(st, wh[1], wh[2], 1, cfg.internalFormat,
        cfg.textureFormat, cfg.textureTypeRender, failAt)

createPixelDataTexture(st, rows, columns, cfg, failAt) ==
  LET wh == getUnpackedMatrixTextureShapeWidthHeight(rows, columns)
  IN  createAndConfigureTexture(st, wh[1], wh[2], 4, "RGBA", "RGBA",
        "UNSIGNED_BYTE", failAt)

createPackedMatrixTexture(st, rows, columns, cfg, failAt) ==
  LET wh == getPackedMatrixTextureShapeWidthHeight(rows, columns)
  IN  createAndConfigureTexture(st, wh[1], wh[2], 4, cfg.internalFormat,
        cfg.textureFormat, cfg.defaultTextureType, failAt)

(***************************************************************************)
(* Upload (lines 331-409).                                                 *)
(***************************************************************************)

\* Lines 331-340: the texture is defined anew from the image, with its
\* size and its RGBA bytes; no size check is made here.
uploadPixelDataToTexture(st, pixels, failAt) ==
  callAndCheckAll(
    << [cmd |-> "bindTexture", texture |-> "texture"],
       [cmd |-> "texImage2D", internalFormat |-> "RGBA", format |-> "RGBA",
        type |-> "UNSIGNED_BYTE", width |-> pixels.width,
        height |-> pixels.height, pixels |-> pixels.data],
       [cmd |-> "bindTexture", texture |-> Null] >>,
    1, failAt, st)

uploadDataToTexture(st, width, height, data, numChannels, cfg, failAt) ==
  IF ~validateTextureSize(width, height)
    THEN [st EXCEPT !.threw = TRUE]
    ELSE callAndCheckAll(
           << [cmd |-> "bindTexture", texture |-> "texture"],
              [cmd |-> "texSubImage2D", width |-> width, height |-> height,
               format |-> cfg.textureFormat, type |-> cfg.textureTypeUpload,
               data |-> data],
              [cmd |-> "bindTexture", texture |-> Null] >>,
           1, failAt, st)

\* Lines 367-379: the buffer uploadMatrixToTexture hands on.
UnpackedArrayOf(matrix, numChannels, cfg) ==
  IF cfg.defaultNumChannels = 1
    THEN matrix
    ELSE encodeMatrixToUnpackedArray(
           matrix,
           Zeros(getUnpackedArraySizeFromMatrixSize(Len(matrix), numChannels)),
           numChannels)

uploadMatrixToTexture(st, rows, columns, matrix, numChannels, cfg, failAt) ==
  LET wh == getUnpackedMatrixTextureShapeWidthHeight(rows, columns)
  IN  uploadDataToTexture(st, wh[1], wh[2],
        UnpackedArrayOf(matrix, numChannels, cfg), numChannels, cfg, failAt)

uploadMatrixToPackedTexture(st, rows, columns, matrix, cfg, failAt) ==
  LET wh == getPackedMatrixTextureShapeWidthHeight(rows, columns)
      packedRGBA ==
        encodeMatrixToPackedRGBA(
          matrix, rows, columns,
          Zeros(getPackedRGBAArraySizeFromMatrixShape(rows, columns)))
  IN  uploadDataToTexture(st, wh[1], wh[2], packedRGBA, 4, cfg, failAt)

(***************************************************************************)
(* Synchronous download (lines 411-452, 492-528).                          *)
(***************************************************************************)

getDownloadTargetArrayBuffer(rows, columns, numChannels, env) ==
  IF env.WEBGL_DOWNLOAD_FLOAT_ENABLED
    THEN [kind |-> "Float32Array",
          data |-> Zeros(getUnpackedArraySizeFromMatrixSize(
                           rows * columns, numChannels))]
    ELSE [kind |-> "Uint8Array", data |-> Zeros(rows * columns * 4)]

\* Variant of Float32View that makes one value of every byte, rescaled to
\* the unit interval (0 or 1 here), instead of one value of every 4 bytes.
Float32View_Rescaled(bytes) ==
  [i \in 1..Len(bytes) |-> [bits |-> <<bytes[i] \div 255, 0, 0, 0>>]]

\* A Float32Array over a byte buffer: element i is the 32-bit pattern made
\* of bytes 4i .. 4i+3, kept as those four bytes in memory order.
Float32View(bytes) ==
  [i \in 1..(Len(bytes) \div 4) |->
     [bits |-> <<bytes[4 * i - 3], bytes[4 * i - 2],
                 bytes[4 * i - 1], bytes[4 * i]>>]]

decodeDownloadTargetArrayBuffer(downloadTarget, rows, columns, channelsPerPixel, env) ==
  IF env.WEBGL_DOWNLOAD_FLOAT_ENABLED
    THEN decodeMatrixFromUnpackedArray(
           downloadTarget.data, Zeros(rows * columns), channelsPerPixel)
    ELSE IF downloadTarget.kind = "Float32Array"
           THEN downloadTarget.data
           ELSE Float32View(downloadTarget.data)

downloadMatrixFromOutputTexture(st, rows, columns, cfg, env, failAt) ==
  LET wh == getUnpackedMatrixTextureShapeWidthHeight(rows, columns)
      downloadTarget ==
        getDownloadTargetArrayBuffer(
          rows, columns, cfg.downloadUnpackNumChannels, env)
      r == callAndCheckAll(
             << [cmd |-> "readPixels", width |-> wh[1], height |-> wh[2],
                 format |-> cfg.downloadTextureFormat,
                 type |-> cfg.downloadTextureType,
                 target |-> downloadTarget] >>,
             1, failAt, st)
  IN  IF r.threw
        THEN r
        ELSE [r EXCEPT !.result =
               decodeDownloadTargetArrayBuffer(
                 r.target, rows, columns, cfg.downloadUnpackNumChannels, env)]

(***************************************************************************)
(* downloadMatrixFromOutputTextureAsync (lines 454-490).                   *)
(***************************************************************************)

\* Lines 468-470: a Float32Array target gives its byte length; a Uint8Array
\* target is itself handed to bufferData, which sizes the buffer to it.
bufferSizeBytes(downloadTarget) ==
  IF downloadTarget.kind = "Float32Array"
    THEN Len(downloadTarget.data) * 4
    ELSE Len(downloadTarget.data)

\* The commands of lines 471-483, in order.
downloadAsyncCommands(gl, rows, columns, cfg, downloadTarget, buffer) ==
  << [cmd |-> "createBuffer"],
     [cmd |-> "bindBuffer", target |-> gl.PIXEL_PACK_BUFFER,
      buffer |-> buffer],
     [cmd |-> "bufferData", target |-> gl.PIXEL_PACK_BUFFER,
      size |-> bufferSizeBytes(downloadTarget)],
     [cmd |-> "readPixels", width |-> columns, height |-> rows,
      format |-> gl.RGBA, type |-> cfg.defaultTextureType,
      target |-> [kind |-> "PIXEL_PACK_BUFFER", offset |-> 0]] >>

\* The request of lines 485-486, made before the function suspends.
getBufferSubDataAsync(gl) ==
  [cmd |-> "getBufferSubDataAsync", target |-> gl.PIXEL_PACK_BUFFER,
   offset |-> 0]

\* Variant of downloadMatrixFromOutputTextureAsync that allocates a
\* pixel-pack buffer only when the context has none and otherwise reuses
\* the first one.
downloadMatrixFromOutputTextureAsync_SharedBuffer(st, gl, rows, columns, cfg, env, failAt) ==
  LET downloadTarget == getDownloadTargetArrayBuffer(rows, columns, 4, env)
      logged == [st EXCEPT !.log = Append(@, [cmd |-> "createBuffer"])]
      created == IF failAt = 1 \/ st.buffers.store # <<>>
                   THEN logged
                   ELSE GLApply([cmd |-> "createBuffer"], logged)
      buffer == IF failAt = 1 THEN NullBuffer ELSE 1
      cmds == downloadAsyncCommands(gl, rows, columns, cfg, downloadTarget,
                                    buffer)
      checked ==
        IF failAt = 1
          THEN [GLApply(cmds[2], [created EXCEPT !.log = Append(@, cmds[2])])
                  EXCEPT !.threw = TRUE]
          ELSE callAndCheckAll(cmds, 2, failAt, created)
  IN  [st |-> IF checked.threw
                THEN checked
                ELSE [checked EXCEPT
                        !.log = Append(@, getBufferSubDataAsync(gl))],
       downloadTarget |-> downloadTarget,
       buffer |-> buffer]

\* The part of downloadMatrixFromOutputTextureAsync that runs before it
\* suspends (lines 461-486).  gl.createBuffer() on line 471 is not wrapped
\* in callAndCheck: when the context reports an error for it (failAt = 1)
\* it returns null, bindBuffer is issued all the same, and the check after
\* bindBuffer throws.  Yields the state, the download target and the
\* buffer the request reads.
downloadMatrixFromOutputTextureAsync(st, gl, rows, columns, cfg, env, failAt) ==
  LET channelsPerPixel == 4
      downloadTarget ==
        getDownloadTargetArrayBuffer(rows, columns, channelsPerPixel, env)
      logged == [st EXCEPT !.log = Append(@, [cmd |-> "createBuffer"])]
      created == IF failAt = 1
                   THEN logged
                   ELSE GLApply([cmd |-> "createBuffer"], logged)
      buffer == IF failAt = 1 THEN NullBuffer ELSE Len(created.buffers.store)
      cmds == downloadAsyncCommands(gl, rows, columns, cfg, downloadTarget,
                                    buffer)
      checked ==
        IF failAt = 1
          THEN [GLApply(cmds[2], [created EXCEPT !.log = Append(@, cmds[2])])
                  EXCEPT !.threw = TRUE]
          ELSE callAndCheckAll(cmds, 2, failAt, created)
  IN  [st |-> IF checked.threw
                THEN checked
                ELSE [checked EXCEPT
                        !.log = Append(@, getBufferSubDataAsync(gl))],
       downloadTarget |-> downloadTarget,
       buffer |-> buffer]

\* What the extension copies into the download target when the read of
\* the buffer completes.
getBufferSubData(buffer, dst) ==
  IF \/ buffer.kind = "FLOAT" /\ dst.kind = "Float32Array"
     \/ buffer.kind = "UNSIGNED_BYTE" /\ dst.kind = "Uint8Array"
    THEN [kind |-> dst.kind,
          data |-> [i \in 1..Len(dst.data) |->
                      IF i <= Len(buffer.data)
                        THEN buffer.data[i] ELSE dst.data[i]]]
    ELSE dst

\* Lines 488-489: the decode made when the function resumes.
downloadAsyncResume(downloadTarget, rows, columns, env) ==
  decodeDownloadTargetArrayBuffer(downloadTarget, rows, columns, 4, env)

(***************************************************************************)
(* Bounds of the model.                                                    *)
(***************************************************************************)

MaxColumns == 2       \* columns of a matrix: 1..MaxColumns
MaxBase == 1          \* first element of a matrix: 1..MaxBase

\* The caller's numChannels argument: the two channel counts the source
\* uses (1 and 4) and one more than a texel has.
ChannelCounts == {1, 4, 5}

\* The matrices of n elements: runs base, base+1, ...  The codecs copy
\* elements by index and never inspect them, and the elements of a run are
\* pairwise different and nonzero, so a misplaced, dropped or padded
\* element shows.
Matrices(n) == { [i \in 1..n |-> base + i - 1] : base \in 1..MaxBase }

\* The matrices a caller hands to an upload declared as rows x columns: of
\* that many elements, one fewer, or one more.
UploadMatrices(rows, columns) ==
  UNION { Matrices(n) :
            n \in {rows * columns - 1, rows * columns, rows * columns + 1} }

\* The row counts tried: those the platform's texture size admits, one
\* that only the packed shape (half as high) admits, and one that neither
\* shape admits.
Rows == (1..MaxTextureSize) \cup {MaxTextureSize + 1, 2 * MaxTextureSize + 1}

Columns == 1..MaxColumns

\* The rows x columns shapes tried: a row count beyond the platform's
\* texture size is refused whatever the column count, and is tried with
\* one column.
TextureShapes ==
  { shape \in Rows \X Columns : shape[1] <= MaxTextureSize \/ shape[2] = 1 }

Roles == {"upload", "render", "pixelData", "packed"}

\* The images uploaded: width x height RGBA bytes, byte i being 10 * i.
ImageData(width, height) ==
  [width |-> width, height |-> height,
   data |-> [i \in 1..(width * height * 4) |-> 10 * i]]

PixelSources == {ImageData(1, 1), ImageData(2, 1)}

(***************************************************************************)
(* Capability resolution: the calls and the environment.                   *)
(***************************************************************************)

\* The environment's flags are set (ENV.set, or a new feature probe).
SetEnv(env) ==
  /\ env # ENV
  /\ ENV' = env
  /\ UNCHANGED <<LOOKUP, textureConfig, lastCall, remembered,
                 texture, boundTexture, glLog>>
  /\ UNCHANGED asyncVars

\* A mutant of GetTextureConfigCall: the half-float constant is taken from
\* LOOKUP when an earlier call has put it there.
GetTextureConfigCall_ReadsLookup(ext) ==
  LET gl == GLContext(ENV.WEBGL_VERSION)
      cached == IF "HALF_FLOAT_OES" \in DOMAIN LOOKUP
                  THEN HalfFloatExtension ELSE ext
      r == getTextureConfig(gl, cached, ENV)
  IN  /\ LOOKUP' = LookupAfter(LOOKUP, gl, ext)
      /\ textureConfig' = IF r.threw THEN textureConfig ELSE r.value
      /\ lastCall' = [op |-> "getTextureConfig", env |-> ENV, ext |-> ext,
                      threw |-> r.threw, result |-> r.value,
                      glBefore |-> <<texture, boundTexture>>]
      /\ remembered' \in
           IF lastCall.op = "getTextureConfig"
             THEN {remembered, lastCall}
             ELSE {remembered}
      /\ glLog' = <<>>
      /\ UNCHANGED <<ENV, texture, boundTexture>>
      /\ UNCHANGED asyncVars

\* getTextureConfig(gl, ext) on the context made for the environment's GL
\* version.  The writes to LOOKUP come first (lines 116-132), so they
\* happen also when the call throws further down.
GetTextureConfigCall(ext) ==
  LET gl == GLContext(ENV.WEBGL_VERSION)
      r == getTextureConfig(gl, ext, ENV)
  IN  /\ LOOKUP' = LookupAfter(LOOKUP, gl, ext)
      /\ textureConfig' = IF r.threw THEN textureConfig ELSE r.value
      /\ lastCall' = [op |-> "getTextureConfig", env |-> ENV, ext |-> ext,
                      threw |-> r.threw, result |-> r.value,
                      glBefore |-> <<texture, boundTexture>>]
      /\ remembered' \in
           IF lastCall.op = "getTextureConfig"
             THEN {remembered, lastCall}
             ELSE {remembered}
      /\ glLog' = <<>>
      /\ UNCHANGED <<ENV, texture, boundTexture>>
      /\ UNCHANGED asyncVars

NoCall == [op |-> "none", threw |-> FALSE]

InitResolve ==
  /\ ENV \in Environments
  /\ LOOKUP = [x \in {} |-> "none"]
  /\ textureConfig = NoConfig
  /\ lastCall = NoCall
  /\ remembered = NoCall
  /\ texture = NoTexture
  /\ boundTexture \in {Null, "stale"}
  /\ glLog = <<>>
  /\ glBuffers = NoBuffers
  /\ asyncCalls = <<>>

NextResolve ==
  \/ \E env \in Environments : SetEnv(env)
  \/ \E ext \in ExtensionHandles : GetTextureConfigCall(ext)

SpecResolve == InitResolve /\ [][NextResolve]_vars

(***************************************************************************)
(* Textures: allocation, upload and download on one context, with the      *)
(* descriptor resolved for it.  The caller owns one texture at a time.  A  *)
(* call that throws is fatal to the texture it worked on: the caller drops *)
(* it and allocates anew (the objects stay in the context, and one of them *)
(* may stay bound).                                                        *)
(***************************************************************************)

\* The GL state a call starts from.
Start ==
  [texture |-> texture, boundTexture |-> boundTexture, log |-> <<>>,
   threw |-> FALSE, target |-> NoTarget, result |-> <<>>,
   buffers |-> glBuffers]

\* What a texture remembers of the upload that wrote it.
Source(call) ==
  [op |-> call.op, rows |-> call.rows, columns |-> call.columns,
   matrix |-> call.matrix]

\* The binding a call leaves when the texture object it made is not the
\* caller's: an object left bound is one the caller has no handle to.
BindingOfDropped(st) ==
  IF st.boundTexture = Null THEN Null ELSE "stale"

\* Whether the caller's texture is one that create<Role>Texture sized for
\* a rows x columns matrix with the packed or the unpacked shape.  Uploads
\* and downloads are made on such a texture, or with a shape the size
\* check refuses.
SizedFor(rows, columns, packed) ==
  LET wh == IF packed
              THEN getPackedMatrixTextureShapeWidthHeight(rows, columns)
              ELSE getUnpackedMatrixTextureShapeWidthHeight(rows, columns)
  IN  \/ ~validateTextureSize(wh[1], wh[2])
      \/ texture.shape = wh

\* create<Role>Texture(gl, rows, columns, textureConfig).  The caller drops
\* the texture it had; when the call throws it gets no handle for the new
\* one.
Allocate(role, rows, columns, failAt) ==
  LET st == CASE role = "upload" ->
                   createUploadMatrixTexture(Start, rows, columns,
                                             textureConfig, failAt)
              [] role = "render" ->
                   createRenderMatrixTexture(Start, rows, columns,
                                             textureConfig, failAt)
              [] role = "pixelData" ->
                   createPixelDataTexture(Start, rows, columns,
                                          textureConfig, failAt)
              [] role = "packed" ->
                   createPackedMatrixTexture(Start, rows, columns,
                                             textureConfig, failAt)
  IN  /\ texture' = IF st.threw
                      THEN NoTexture
                      ELSE [st.texture EXCEPT
                              !.role = role,
                              !.shape = <<st.texture.width,
                                          st.texture.height>>]
      /\ boundTexture' = IF st.threw
                           THEN BindingOfDropped(st)
                           ELSE st.boundTexture
      /\ glLog' = st.log
      /\ lastCall' = [op |-> "allocate", role |-> role, rows |-> rows,
                      columns |-> columns, failAt |-> failAt,
                      threw |-> st.threw]
      /\ UNCHANGED <<ENV, LOOKUP, textureConfig, remembered>>
      /\ UNCHANGED asyncVars

\* uploadMatrixToTexture(gl, texture, rows, columns, matrix, numChannels,
\* textureConfig) on the caller's upload texture.
Upload(rows, columns, matrix, numChannels, failAt) ==
  LET st == uploadMatrixToTexture(Start, rows, columns, matrix, numChannels,
                                  textureConfig, failAt)
      call == [op |-> "uploadMatrixToTexture", rows |-> rows,
               columns |-> columns, matrix |-> matrix,
               numChannels |-> numChannels, failAt |-> failAt,
               threw |-> st.threw]
  IN  /\ texture.exists /\ texture.role = "upload"
      /\ SizedFor(rows, columns, FALSE)
      /\ texture' = IF st.threw
                      THEN NoTexture
                      ELSE [st.texture EXCEPT !.source = Source(call)]
      /\ boundTexture' = IF st.threw
                           THEN BindingOfDropped(st)
                           ELSE st.boundTexture
      /\ glLog' = st.log
      /\ lastCall' = call
      /\ UNCHANGED <<ENV, LOOKUP, textureConfig, remembered>>
      /\ UNCHANGED asyncVars

\* uploadMatrixToPackedTexture(gl, texture, rows, columns, matrix,
\* textureConfig) on the caller's packed texture.
UploadPacked(rows, columns, matrix, failAt) ==
  LET st == uploadMatrixToPackedTexture(Start, rows, columns, matrix,
                                        textureConfig, failAt)
      call == [op |-> "uploadMatrixToPackedTexture", rows |-> rows,
               columns |-> columns, matrix |-> matrix, failAt |-> failAt,
               threw |-> st.threw]
  IN  /\ texture.exists /\ texture.role = "packed"
      /\ SizedFor(rows, columns, TRUE)
      /\ texture' = IF st.threw
                      THEN NoTexture
                      ELSE [st.texture EXCEPT !.source = Source(call)]
      /\ boundTexture' = IF st.threw
                           THEN BindingOfDropped(st)
                           ELSE st.boundTexture
      /\ glLog' = st.log
      /\ lastCall' = call
      /\ UNCHANGED <<ENV, LOOKUP, textureConfig, remembered>>
      /\ UNCHANGED asyncVars

\* uploadPixelDataToTexture(gl, texture, pixels) on the caller's texture,
\* whatever it was created for.
UploadPixelData(pixels, failAt) ==
  LET st == uploadPixelDataToTexture(Start, pixels, failAt)
      call == [op |-> "uploadPixelDataToTexture", pixels |-> pixels,
               failAt |-> failAt, threw |-> st.threw]
  IN  /\ texture.exists
      /\ texture' = IF st.threw
                      THEN NoTexture
                      ELSE [st.texture EXCEPT
                              !.source = [op |-> call.op,
                                          pixels |-> pixels]]
      /\ boundTexture' = IF st.threw
                           THEN BindingOfDropped(st)
                           ELSE st.boundTexture
      /\ glLog' = st.log
      /\ lastCall' = call
      /\ UNCHANGED <<ENV, LOOKUP, textureConfig, remembered>>
      /\ UNCHANGED asyncVars

\* downloadMatrixFromOutputTexture(gl, rows, columns, textureConfig, ext)
\* with the caller's unpacked texture attached to the framebuffer read.
Download(rows, columns, failAt) ==
  LET st == downloadMatrixFromOutputTexture(Start, rows, columns,
                                            textureConfig, ENV, failAt)
  IN  /\ texture.exists /\ texture.role \in {"upload", "render"}
      /\ SizedFor(rows, columns, FALSE)
      /\ lastCall' = [op |-> "downloadMatrixFromOutputTexture",
                      rows |-> rows, columns |-> columns,
                      failAt |-> failAt,
                      threw |-> st.threw, target |-> st.target,
                      result |-> st.result]
      /\ glLog' = st.log
      /\ texture' = IF st.threw THEN NoTexture ELSE st.texture
      /\ boundTexture' = IF st.threw
                           THEN BindingOfDropped(st)
                           ELSE st.boundTexture
      /\ UNCHANGED <<ENV, LOOKUP, textureConfig, remembered>>
      /\ UNCHANGED asyncVars

\* A context and the descriptor getTextureConfig returned for it.
InitTexture ==
  /\ ENV \in Environments
  /\ \E ext \in ExtensionHandles :
       LET gl == GLContext(ENV.WEBGL_VERSION)
           r == getTextureConfig(gl, ext, ENV)
       IN  /\ ~r.threw
           /\ textureConfig = r.value
           /\ LOOKUP = LookupAfter([x \in {} |-> "none"], gl, ext)
  /\ lastCall = NoCall
  /\ remembered = NoCall
  /\ texture = NoTexture
  /\ boundTexture = Null
  /\ glLog = <<>>
  /\ glBuffers = NoBuffers
  /\ asyncCalls = <<>>

\* No context error is injected here (failAt = 0): a call throws when the
\* size check refuses the shape or the context rejects a command.
NextTexture ==
  \/ \E role \in Roles, shape \in TextureShapes :
       Allocate(role, shape[1], shape[2], 0)
  \/ \E shape \in TextureShapes, numChannels \in ChannelCounts :
       \E matrix \in UploadMatrices(shape[1], shape[2]) :
         Upload(shape[1], shape[2], matrix, numChannels, 0)
  \/ \E shape \in TextureShapes :
       \E matrix \in UploadMatrices(shape[1], shape[2]) :
         UploadPacked(shape[1], shape[2], matrix, 0)
  \/ \E pixels \in PixelSources :
       UploadPixelData(pixels, 0)
  \/ \E shape \in TextureShapes :
       Download(shape[1], shape[2], 0)

SpecTexture == InitTexture /\ [][NextTexture]_vars

(***************************************************************************)
(* Asynchronous downloads: calls suspended at the same time, with the      *)
(* host changing the download flag, the texture and making synchronous     *)
(* downloads in between.                                                   *)
(***************************************************************************)

\* The shapes and the overlapping calls tried here.
AsyncRows == {1}

AsyncColumns == {1, 2}

AsyncCallIds == {1, 2}

\* downloadMatrixFromOutputTextureAsync(gl, ext, rows, columns,
\* textureConfig) up to its suspension.  `issued` remembers what its own
\* read put into its buffer.
AsyncDownload(rows, columns, failAt) ==
  LET r == downloadMatrixFromOutputTextureAsync(
             Start, GLContext(ENV.WEBGL_VERSION), rows, columns,
             textureConfig, ENV, failAt)
  IN  /\ Len(asyncCalls) < Cardinality(AsyncCallIds)
      /\ texture.exists /\ texture.role \in {"upload", "render"}
      /\ SizedFor(rows, columns, FALSE)
      /\ asyncCalls' =
           Append(asyncCalls,
                  [rows |-> rows, columns |-> columns,
                   downloadTarget |-> r.downloadTarget,
                   buffer |-> r.buffer,
                   phase |-> IF r.st.threw THEN "rejected" ELSE "suspended",
                   issued |-> IF r.st.threw
                                THEN <<>>
                                ELSE r.st.buffers.store[r.buffer].data,
                   result |-> <<>>])
      /\ glBuffers' = r.st.buffers
      /\ glLog' = r.st.log
      /\ lastCall' = [op |-> "downloadMatrixFromOutputTextureAsync",
                      rows |-> rows, columns |-> columns,
                      failAt |-> failAt, threw |-> r.st.threw]
      /\ UNCHANGED <<ENV, LOOKUP, textureConfig, remembered, texture,
                     boundTexture>>

\* The extension signals that the read requested by call i is complete:
\* the buffer's data is in the call's download target.
ExtensionCompletes(i) ==
  /\ i \in 1..Len(asyncCalls)
  /\ asyncCalls[i].phase = "suspended"
  /\ asyncCalls' =
       [asyncCalls EXCEPT
          ![i].phase = "completed",
          ![i].downloadTarget =
            getBufferSubData(glBuffers.store[asyncCalls[i].buffer], @)]
  /\ UNCHANGED <<ENV, LOOKUP, textureConfig, lastCall, remembered, texture,
                 boundTexture, glLog, glBuffers>>

\* The extension rejects the request of call i: the await throws.
ExtensionFails(i) ==
  /\ i \in 1..Len(asyncCalls)
  /\ asyncCalls[i].phase = "suspended"
  /\ asyncCalls' = [asyncCalls EXCEPT ![i].phase = "rejected"]
  /\ UNCHANGED <<ENV, LOOKUP, textureConfig, lastCall, remembered, texture,
                 boundTexture, glLog, glBuffers>>

\* Call i resumes after the await, decodes and resolves.
AsyncResume(i) ==
  /\ i \in 1..Len(asyncCalls)
  /\ asyncCalls[i].phase = "completed"
  /\ asyncCalls' =
       [asyncCalls EXCEPT
          ![i].phase = "resolved",
          ![i].result =
            downloadAsyncResume(asyncCalls[i].downloadTarget,
                                asyncCalls[i].rows, asyncCalls[i].columns,
                                ENV)]
  /\ UNCHANGED <<ENV, LOOKUP, textureConfig, lastCall, remembered, texture,
                 boundTexture, glLog, glBuffers>>

\* The host switches WEBGL_DOWNLOAD_FLOAT_ENABLED; the context stays the
\* one the descriptor was computed for.
SetDownloadFloat ==
  SetEnv([ENV EXCEPT !.WEBGL_DOWNLOAD_FLOAT_ENABLED = ~@])

\* The host allocates and writes the output texture (with the descriptor's
\* channel count), switches the flag, and starts downloads; the extension
\* completes or rejects pending requests in any order.
NextAsync ==
  \/ SetDownloadFloat
  \/ \E rows \in AsyncRows, columns \in AsyncColumns :
       Allocate("upload", rows, columns, 0)
  \/ \E rows \in AsyncRows, columns \in AsyncColumns :
       \E matrix \in Matrices(rows * columns) :
         Upload(rows, columns, matrix, textureConfig.defaultNumChannels, 0)
  \/ \E rows \in AsyncRows, columns \in AsyncColumns :
       AsyncDownload(rows, columns, 0)
  \/ \E i \in AsyncCallIds : ExtensionCompletes(i)
  \/ \E i \in AsyncCallIds : ExtensionFails(i)
  \/ \E i \in AsyncCallIds : AsyncResume(i)

SpecAsync == InitTexture /\ [][NextAsync]_vars

(***************************************************************************)
(* Synchronous downloads with the host switching the download flag after   *)
(* the descriptor was computed.                                            *)
(***************************************************************************)

NextDownloadMode ==
  \/ SetDownloadFloat
  \/ \E role \in {"upload", "render"}, rows \in AsyncRows,
        columns \in AsyncColumns :
       Allocate(role, rows, columns, 0)
  \/ \E rows \in AsyncRows, columns \in AsyncColumns :
       \E matrix \in Matrices(rows * columns) :
         Upload(rows, columns, matrix, textureConfig.defaultNumChannels, 0)
  \/ \E rows \in AsyncRows, columns \in AsyncColumns :
       Download(rows, columns, 0)

SpecDownloadMode == InitTexture /\ [][NextDownloadMode]_vars

(***************************************************************************)
(* Context errors: in every operation the context may report an error for  *)
(* any one of the commands the operation issues (failAt: its number in     *)
(* the operation's command order, 0 for none).                             *)
(***************************************************************************)

\* The commands an operation issues when none fails.
CommandCount(op) ==
  CASE op = "allocate" -> 8
    [] op \in {"uploadMatrixToTexture", "uploadMatrixToPackedTexture",
               "uploadPixelDataToTexture"} -> 3
    [] op = "downloadMatrixFromOutputTexture" -> 1
    [] op = "downloadMatrixFromOutputTextureAsync" -> 5

\* The shapes tried here.
FaultRows == {1}

FaultColumns == {1}

NextFault ==
  \/ \E role \in Roles, rows \in FaultRows, columns \in FaultColumns :
       \E failAt \in 0..CommandCount("allocate") :
         Allocate(role, rows, columns, failAt)
  \/ \E rows \in FaultRows, columns \in FaultColumns :
       \E matrix \in Matrices(rows * columns),
          failAt \in 0..CommandCount("uploadMatrixToTexture") :
         Upload(rows, columns, matrix, textureConfig.defaultNumChannels,
                failAt)
  \/ \E rows \in FaultRows, columns \in FaultColumns :
       \E matrix \in Matrices(rows * columns),
          failAt \in 0..CommandCount("uploadMatrixToPackedTexture") :
         UploadPacked(rows, columns, matrix, failAt)
  \/ \E pixels \in {ImageData(1, 1)} :
       \E failAt \in 0..CommandCount("uploadPixelDataToTexture") :
         UploadPixelData(pixels, failAt)
  \/ \E rows \in FaultRows, columns \in FaultColumns :
       \E failAt \in 0..CommandCount("downloadMatrixFromOutputTexture") :
         Download(rows, columns, failAt)
  \/ \E rows \in FaultRows, columns \in FaultColumns :
       \E failAt \in 0..(CommandCount("downloadMatrixFromOutputTextureAsync") - 1) :
         AsyncDownload(rows, columns, failAt)

SpecFault == InitTexture /\ [][NextFault]_vars

(***************************************************************************)
(* Claims about capability resolution, checked under SpecResolve.          *)
(***************************************************************************)

Resolved == lastCall.op = "getTextureConfig" /\ ~lastCall.threw

LegacyCall == lastCall.op = "getTextureConfig" /\ lastCall.env.WEBGL_VERSION # 2

ModernCall == lastCall.op = "getTextureConfig" /\ lastCall.env.WEBGL_VERSION = 2

\* The type the claims call "the half-float extension type" or FLOAT,
\* by the float-render flag of the call.
FloatOrHalfFloat ==
  IF lastCall.env.WEBGL_RENDER_FLOAT_ENABLED
    THEN "FLOAT" ELSE lastCall.ext.HALF_FLOAT_OES

\* C1 as stated: on the legacy tier the descriptor has internalFormat =
\* textureFormat = RGBA, and both the upload type and the render type are
\* the half-float extension type when float rendering is disabled and FLOAT
\* otherwise.
C1_LegacyUploadAndRenderFallBack ==
  (Resolved /\ LegacyCall) =>
    /\ lastCall.result.internalFormat = "RGBA"
    /\ lastCall.result.textureFormat = "RGBA"
    /\ lastCall.result.textureTypeUpload = FloatOrHalfFloat
    /\ lastCall.result.textureTypeRender = FloatOrHalfFloat

\* C1 amended: on the legacy tier the descriptor has internalFormat =
\* textureFormat = RGBA; the render type is the half-float extension type
\* when float rendering is disabled and FLOAT otherwise; the upload type is
\* FLOAT in both cases.
C1_LegacyRenderFallsBackUploadFloat ==
  (Resolved /\ LegacyCall) =>
    /\ lastCall.result.internalFormat = "RGBA"
    /\ lastCall.result.textureFormat = "RGBA"
    /\ lastCall.result.textureTypeUpload = "FLOAT"
    /\ lastCall.result.textureTypeRender = FloatOrHalfFloat

\* A legacy-tier descriptor resolved with float rendering disabled.
C1_Witness ==
  /\ Resolved /\ LegacyCall
  /\ ~lastCall.env.WEBGL_RENDER_FLOAT_ENABLED
  /\ lastCall.result.textureTypeRender = "HALF_FLOAT_OES"

\* C2: a returned descriptor's render type is FLOAT when float rendering is
\* enabled and the half-float extension's type otherwise; on the legacy
\* tier with float rendering disabled and a null extension handle the call
\* throws and returns no descriptor.
C2_RenderTypeOrFailure ==
  /\ Resolved =>
       /\ lastCall.result.textureTypeRender = FloatOrHalfFloat
       /\ lastCall.result.textureTypeRender \in {"FLOAT", "HALF_FLOAT_OES"}
  /\ (LegacyCall /\ ~lastCall.env.WEBGL_RENDER_FLOAT_ENABLED
        /\ lastCall.ext.isNull) =>
       /\ lastCall.threw
       /\ lastCall.result = NoConfig

\* A legacy-tier call without float rendering and without the extension,
\* which threw, after an earlier call had returned a descriptor.
C2_Witness ==
  /\ LegacyCall
  /\ ~lastCall.env.WEBGL_RENDER_FLOAT_ENABLED
  /\ lastCall.ext.isNull
  /\ lastCall.threw
  /\ textureConfig # NoConfig

\* C3 as stated: on the modern tier getTextureConfig succeeds for every
\* value of the float-render and float-download flags, with or without an
\* extension handle, and returns R32F / R16F / RED, defaultNumChannels = 1
\* and downloadUnpackNumChannels = 4.
C3_ModernAlwaysSucceeds ==
  ModernCall =>
    /\ ~lastCall.threw
    /\ lastCall.result.internalFormat = "R32F"
    /\ lastCall.result.internalFormatHalfFloat = "R16F"
    /\ lastCall.result.textureFormat = "RED"
    /\ lastCall.result.defaultNumChannels = 1
    /\ lastCall.result.downloadUnpackNumChannels = 4

SameInputs(a, b) == a.env = b.env /\ a.ext = b.ext

\* C4: a getTextureConfig call leaves the context as it found it and issues
\* no GL command, and it returns what an earlier call with the same
\* capability inputs returned, whatever calls came in between.
C4_DeterministicNoSideEffect ==
  lastCall.op = "getTextureConfig" =>
    /\ <<texture, boundTexture>> = lastCall.glBefore
    /\ glLog = <<>>
    /\ (remembered.op = "getTextureConfig" /\ SameInputs(remembered, lastCall))
         => /\ remembered.threw = lastCall.threw
            /\ remembered.result = lastCall.result

\* Two calls with the same inputs, the later one on a legacy context made
\* after calls on a modern context and with an extension handle have
\* filled LOOKUP, and with a texture left bound in the context.
C4_Witness ==
  /\ lastCall.op = "getTextureConfig"
  /\ remembered.op = "getTextureConfig"
  /\ SameInputs(remembered, lastCall)
  /\ lastCall.env.WEBGL_VERSION = 1
  /\ lastCall.ext.isNull
  /\ {"R32F", "HALF_FLOAT_OES"} \subseteq DOMAIN LOOKUP
  /\ boundTexture = "stale"

(***************************************************************************)
(* Claims about allocation, upload and download, checked under             *)
(* SpecTexture.                                                            *)
(***************************************************************************)

Allocated == lastCall.op = "allocate" /\ ~lastCall.threw

UnpackedShapeOfCall ==
  getUnpackedMatrixTextureShapeWidthHeight(lastCall.rows, lastCall.columns)

PackedShapeOfCall ==
  getPackedMatrixTextureShapeWidthHeight(lastCall.rows, lastCall.columns)

\* The shape the last call computed: packed for the packed role and the
\* packed upload, unpacked otherwise.
ShapeOfCall ==
  IF \/ lastCall.op = "allocate" /\ lastCall.role = "packed"
     \/ lastCall.op = "uploadMatrixToPackedTexture"
    THEN PackedShapeOfCall
    ELSE UnpackedShapeOfCall

IssuedCommands == { glLog[i].cmd : i \in 1..Len(glLog) }

\* C5 as stated: an allocated texture has the role's shape, channel count
\* and type: upload and render the unpacked shape, 1 channel and the
\* descriptor's upload / render type; packed the packed shape and pixelData
\* the unpacked shape, and a packed or pixelData texture stores 4 channels
\* per texel under every descriptor.
C5_RolesSelectShapeChannelsFormat ==
  Allocated =>
    /\ lastCall.role = "upload" =>
         /\ <<texture.width, texture.height>> = UnpackedShapeOfCall
         /\ texture.numChannels = 1
         /\ texture.textureType = textureConfig.textureTypeUpload
    /\ lastCall.role = "render" =>
         /\ <<texture.width, texture.height>> = UnpackedShapeOfCall
         /\ texture.numChannels = 1
         /\ texture.textureType = textureConfig.textureTypeRender
    /\ lastCall.role = "packed" =>
         /\ <<texture.width, texture.height>> = PackedShapeOfCall
         /\ texture.numChannels = 4
         /\ ChannelsPerTexel(texture.internalFormat) = 4
    /\ lastCall.role = "pixelData" =>
         /\ <<texture.width, texture.height>> = UnpackedShapeOfCall
         /\ texture.numChannels = 4
         /\ ChannelsPerTexel(texture.internalFormat) = 4

\* C6: an allocation or an upload whose texture shape exceeds the
\* platform's maximum texture size throws having issued no GL command: no
\* texture is created, bound, configured or written.
C6_SizeCheckedBeforeAnyCommand ==
  (/\ lastCall.op \in {"allocate", "uploadMatrixToTexture",
                       "uploadMatrixToPackedTexture"}
   /\ \/ ShapeOfCall[1] > MaxTextureSize
      \/ ShapeOfCall[2] > MaxTextureSize)
    => /\ lastCall.threw
       /\ glLog = <<>>

\* A packed allocation refused for its size, in a context where an earlier
\* call left a texture bound.
C6_Witness ==
  /\ lastCall.op = "allocate" /\ lastCall.role = "packed"
  /\ PackedShapeOfCall[2] > MaxTextureSize
  /\ lastCall.threw
  /\ boundTexture = "stale"

\* An unpacked upload refused for its size.
C6_WitnessUpload ==
  /\ lastCall.op = "uploadMatrixToTexture"
  /\ UnpackedShapeOfCall[2] > MaxTextureSize
  /\ lastCall.threw

\* C7: a successful allocation issues, after creating the texture: bind,
\* wrap S and wrap T clamp-to-edge, min and mag filter nearest, texImage2D
\* with a null data pointer, unbind, in this order, and the texture holds
\* no uploaded data; after a successful allocation or upload nothing is
\* bound to TEXTURE_2D.
C7_ConfigureThenUnbind ==
  /\ Allocated =>
       /\ [i \in 1..Len(glLog) |-> glLog[i].cmd] =
            <<"createTexture", "bindTexture", "texParameteri", "texParameteri",
              "texParameteri", "texParameteri", "texImage2D", "bindTexture">>
       /\ glLog[2].texture = "texture"
       /\ <<glLog[3].pname, glLog[3].param>> = <<"TEXTURE_WRAP_S", "CLAMP_TO_EDGE">>
       /\ <<glLog[4].pname, glLog[4].param>> = <<"TEXTURE_WRAP_T", "CLAMP_TO_EDGE">>
       /\ <<glLog[5].pname, glLog[5].param>> = <<"TEXTURE_MIN_FILTER", "NEAREST">>
       /\ <<glLog[6].pname, glLog[6].param>> = <<"TEXTURE_MAG_FILTER", "NEAREST">>
       /\ glLog[7].data = Null
       /\ glLog[8].texture = Null
       /\ \A i \in 1..Len(texture.data) : texture.data[i] = 0
       /\ texture.source.op = "none"
  /\ (/\ lastCall.op \in {"allocate", "uploadMatrixToTexture",
                          "uploadMatrixToPackedTexture",
                          "uploadPixelDataToTexture"}
      /\ ~lastCall.threw)
       => boundTexture = Null

\* A successful allocation of a render texture of more than one texel.
C7_Witness ==
  /\ Allocated
  /\ lastCall.role = "render"
  /\ Len(texture.data) > 1
  /\ boundTexture = Null

\* A successful upload, after which nothing is bound.
C7_WitnessUpload ==
  /\ lastCall.op = "uploadMatrixToTexture" /\ ~lastCall.threw
  /\ boundTexture = Null

\* A successful pixel upload that redefined an upload texture with the
\* image's size and bytes, after which nothing is bound.
C7_WitnessPixelUpload ==
  /\ lastCall.op = "uploadPixelDataToTexture" /\ ~lastCall.threw
  /\ texture.role = "upload"
  /\ <<texture.width, texture.height>> # texture.shape
  /\ texture.data = lastCall.pixels.data
  /\ boundTexture = Null

\* The buffer the last upload handed to texSubImage2D (<<>> when it issued
\* none).
UploadedBuffer ==
  IF \E i \in 1..Len(glLog) : glLog[i].cmd = "texSubImage2D"
    THEN (CHOOSE c \in { glLog[i] : i \in 1..Len(glLog) } :
            c.cmd = "texSubImage2D").data
    ELSE <<>>

\* C8 as stated: whenever uploadMatrixToTexture writes the texture for a
\* rows x columns matrix, whatever numChannels the caller passed, the
\* buffer it hands over has width * height * descriptor.defaultNumChannels
\* elements, and is the matrix itself when that count is 1.
C8_BufferCoversFullExtent ==
  (/\ lastCall.op = "uploadMatrixToTexture"
   /\ Len(lastCall.matrix) = lastCall.rows * lastCall.columns
   /\ "texSubImage2D" \in IssuedCommands)
    => /\ Len(UploadedBuffer) =
            UnpackedShapeOfCall[1] * UnpackedShapeOfCall[2]
              * textureConfig.defaultNumChannels
       /\ textureConfig.defaultNumChannels = 1
            => UploadedBuffer = lastCall.matrix

\* C9 as stated: an upload, unpacked or packed, of a matrix whose length is
\* not rows * columns throws and issues no texture write.
C9_ShapeMismatchRaised ==
  (/\ lastCall.op \in {"uploadMatrixToTexture", "uploadMatrixToPackedTexture"}
   /\ Len(lastCall.matrix) # lastCall.rows * lastCall.columns)
    => /\ lastCall.threw
       /\ "texSubImage2D" \notin IssuedCommands

\* C10 as stated: in float download mode, a download of the rows x columns
\* texture that uploadMatrixToTexture last wrote with a rows x columns
\* matrix M returns M.
C10_RoundTrip ==
  (/\ lastCall.op = "downloadMatrixFromOutputTexture"
   /\ ~lastCall.threw
   /\ ENV.WEBGL_DOWNLOAD_FLOAT_ENABLED
   /\ textureConfig.downloadTextureType = "FLOAT"
   /\ texture.source.op = "uploadMatrixToTexture"
   /\ texture.source.rows = lastCall.rows
   /\ texture.source.columns = lastCall.columns
   /\ Len(texture.source.matrix) = lastCall.rows * lastCall.columns)
    => lastCall.result = texture.source.matrix

ByteDownload ==
  /\ lastCall.op = "downloadMatrixFromOutputTexture"
  /\ ~lastCall.threw
  /\ textureConfig.downloadTextureType = "UNSIGNED_BYTE"
  /\ ~ENV.WEBGL_DOWNLOAD_FLOAT_ENABLED

\* C11: when the download type is unsigned 8-bit (float download
\* disabled), the download target holds rows * columns * 4 bytes and the
\* returned matrix has rows * columns values, value i being the 32-bit
\* pattern of bytes 4i .. 4i+3 of the downloaded buffer, neither rescaled
\* nor selected by channel.
C11_BytesReinterpreted ==
  ByteDownload =>
    /\ lastCall.target.kind = "Uint8Array"
    /\ Len(lastCall.target.data) = lastCall.rows * lastCall.columns * 4
    /\ Len(lastCall.result) = lastCall.rows * lastCall.columns
    /\ \A i \in 1..Len(lastCall.result) :
         lastCall.result[i] =
           [bits |-> <<lastCall.target.data[4 * i - 3],
                       lastCall.target.data[4 * i - 2],
                       lastCall.target.data[4 * i - 1],
                       lastCall.target.data[4 * i]>>]

\* A byte download of two texels whose bytes are neither all zero nor all
\* alike.
C11_Witness ==
  /\ ByteDownload
  /\ lastCall.rows * lastCall.columns = 2
  /\ \E i, j \in 1..4 : lastCall.result[2].bits[i] # lastCall.result[2].bits[j]
  /\ lastCall.result[1] # lastCall.result[2]

(***************************************************************************)
(* Claims about asynchronous downloads, checked under SpecAsync.           *)
(***************************************************************************)

AsyncStarted == lastCall.op = "downloadMatrixFromOutputTextureAsync"

Commands(log) == [i \in 1..Len(log) |-> log[i].cmd]

\* C12 as stated: a call that reaches its suspension has issued, in this
\* order, createBuffer, bindBuffer, bufferData, the read and the request
\* for the asynchronous buffer read; a call has no result before the
\* extension signalled completion and it resumed, and a call that resolves
\* does so with a decoded matrix of rows * columns values.
C12_AsyncOrderAndOutcome ==
  /\ (AsyncStarted /\ ~lastCall.threw) =>
       /\ Commands(glLog) = <<"createBuffer", "bindBuffer", "bufferData",
                              "readPixels", "getBufferSubDataAsync">>
       /\ asyncCalls[Len(asyncCalls)].phase \in {"suspended", "completed",
                                                 "resolved", "rejected"}
  /\ (AsyncStarted /\ lastCall.threw) =>
       asyncCalls[Len(asyncCalls)].phase = "rejected"
  /\ \A i \in 1..Len(asyncCalls) :
       /\ asyncCalls[i].phase # "resolved" => asyncCalls[i].result = <<>>
       /\ asyncCalls[i].phase = "resolved" =>
            Len(asyncCalls[i].result)
              = asyncCalls[i].rows * asyncCalls[i].columns

(***************************************************************************)
(* Claims about context errors, checked under SpecFault.                   *)
(***************************************************************************)

GLOperations ==
  {"allocate", "uploadMatrixToTexture", "uploadMatrixToPackedTexture",
   "uploadPixelDataToTexture", "downloadMatrixFromOutputTexture",
   "downloadMatrixFromOutputTextureAsync"}

\* C13 as stated: when the context reports an error for command number
\* failAt of an allocate, upload or download operation, the operation
\* throws, the failed command is the last one it issued, and it returns no
\* result (no texture, no matrix, no pending read).
C13_ErrorStopsOperation ==
  (lastCall.op \in GLOperations /\ lastCall.failAt >= 1) =>
    /\ lastCall.threw
    /\ Len(glLog) <= lastCall.failAt
    /\ lastCall.op = "allocate" => texture = NoTexture
    /\ lastCall.op = "downloadMatrixFromOutputTexture" =>
         lastCall.result = <<>>
    /\ lastCall.op = "downloadMatrixFromOutputTextureAsync" =>
         /\ asyncCalls[Len(asyncCalls)].phase = "rejected"
         /\ asyncCalls[Len(asyncCalls)].result = <<>>

(***************************************************************************)
(* src/math/array_ops.ts: Ops.range (lines 344-375) and Ops.multinomial    *)
(* (lines 149-176), as functions of integers and of tensor shapes.         *)
(***************************************************************************)

Abs(x) == IF x < 0 THEN -x ELSE x

\* Math.ceil(a / b) for integers a and b, b # 0.
CeilDiv(a, b) == IF b > 0 THEN -((-a) \div b) ELSE -(a \div (-b))

\* Variant of range that counts one element more, up to and including
\* stop when the steps reach it.
range_Closed(start, stop, step) ==
  IF step = 0 THEN [threw |-> TRUE, values |-> <<>>]
  ELSE IF \/ start = stop
          \/ start < stop /\ step < 0
          \/ stop < start /\ step > 1
    THEN [threw |-> FALSE, values |-> <<>>]
  ELSE LET numElements == Abs(CeilDiv(stop - start, step)) + 1
           step2 == IF stop < start /\ step = 1 THEN -1 ELSE step
       IN  [threw |-> FALSE,
            values |-> [i \in 1..numElements |-> start + (i - 1) * step2]]

\* Ops.range(start, stop, step), lines 347-374.  The loop of lines 369-372
\* makes element i the start plus i steps.
range(start, stop, step) ==
  IF step = 0 THEN [threw |-> TRUE, values |-> <<>>]
  ELSE LET sameStartStop == start = stop
           increasingRangeNegativeStep == start < stop /\ step < 0
           decreasingRangePositiveStep == stop < start /\ step > 1
       IN  IF \/ sameStartStop
              \/ increasingRangeNegativeStep
              \/ decreasingRangePositiveStep
             THEN [threw |-> FALSE, values |-> <<>>]
             ELSE LET numElements == Abs(CeilDiv(stop - start, step))
                      step2 == IF stop < start /\ step = 1 THEN -1 ELSE step
                  IN  [threw |-> FALSE,
                       values |-> [i \in 1..numElements |->
                                     start + (i - 1) * step2]]

RECURSIVE Product(_)
Product(shape) ==
  IF shape = <<>> THEN 1 ELSE Head(shape) * Product(Tail(shape))

\* Ops.multinomial(probabilities, numSamples), lines 149-176, on the shape
\* of probabilities; yields the shape of the result.  The kernel returns
\* [batchSize, numSamples].
multinomial(shape, numSamples) ==
  LET numOutcomes == Product(shape)
      origRank == Len(shape)
  IN  IF numOutcomes < 2 THEN [threw |-> TRUE, shape |-> <<>>]
      ELSE IF origRank > 2 THEN [threw |-> TRUE, shape |-> <<>>]
      ELSE LET probs == IF origRank = 1 THEN <<1, numOutcomes>> ELSE shape
               res == <<probs[1], numSamples>>
           IN  [threw |-> FALSE,
                shape |-> IF origRank = 1 THEN <<Product(res)>> ELSE res]

MaxRange == 3     \* start, stop and step of a range: -MaxRange..MaxRange
MaxDim == 2       \* a dimension of probabilities: 1..MaxDim
MaxRank == 3      \* rank of probabilities: 1..MaxRank
MaxSamples == 2   \* numSamples: 1..MaxSamples

RangeArgs == (-MaxRange)..MaxRange

Shapes == UNION { [1..r -> 1..MaxDim] : r \in 1..MaxRank }

RangeCall(start, stop, step) ==
  LET r == range(start, stop, step)
  IN  /\ lastCall' = [op |-> "range", start |-> start, stop |-> stop,
                      step |-> step, threw |-> r.threw, values |-> r.values]
      /\ UNCHANGED <<ENV, LOOKUP, textureConfig, remembered, texture,
                     boundTexture, glLog, glBuffers, asyncCalls>>

MultinomialCall(shape, numSamples) ==
  LET r == multinomial(shape, numSamples)
  IN  /\ lastCall' = [op |-> "multinomial", shape |-> shape,
                      numSamples |-> numSamples, threw |-> r.threw,
                      result |-> r.shape]
      /\ UNCHANGED <<ENV, LOOKUP, textureConfig, remembered, texture,
                     boundTexture, glLog, glBuffers, asyncCalls>>

InitArrayOps ==
  /\ ENV \in Environments
  /\ LOOKUP = [x \in {} |-> "none"]
  /\ textureConfig = NoConfig
  /\ lastCall = NoCall
  /\ remembered = NoCall
  /\ texture = NoTexture
  /\ boundTexture = Null
  /\ glLog = <<>>
  /\ glBuffers = NoBuffers
  /\ asyncCalls = <<>>

NextArrayOps ==
  \/ \E start \in RangeArgs, stop \in RangeArgs, step \in RangeArgs :
       RangeCall(start, stop, step)
  \/ \E shape \in Shapes, numSamples \in 1..MaxSamples :
       MultinomialCall(shape, numSamples)

SpecArrayOps == InitArrayOps /\ [][NextArrayOps]_vars

(***************************************************************************)
(* Claims about array_ops, checked under SpecArrayOps.                     *)
(***************************************************************************)

\* The step a range call walks with: the default 1 is turned into -1 when
\* stop < start.
EffectiveStep ==
  IF lastCall.stop < lastCall.start /\ lastCall.step = 1
    THEN -1 ELSE lastCall.step

\* Whether v lies strictly before stop in the direction of step d.
Before(v, stop, d) == IF d > 0 THEN v < stop ELSE v > stop

\* C14: Ops.range(start, stop, step) throws for step = 0; otherwise it
\* yields start, start + step, start + 2 * step, ...: every such value
\* strictly before stop in the direction of the step (the default 1 taken
\* as -1 when stop < start), and no other, so never stop itself.
C14_RangeHalfOpen ==
  lastCall.op = "range" =>
    /\ lastCall.threw <=> lastCall.step = 0
    /\ lastCall.step # 0 =>
         LET n == Len(lastCall.values)
             d == EffectiveStep
         IN  /\ \A i \in 1..n :
                  /\ lastCall.values[i] = lastCall.start + (i - 1) * d
                  /\ Before(lastCall.values[i], lastCall.stop, d)
                  /\ lastCall.values[i] # lastCall.stop
             /\ ~Before(lastCall.start + n * d, lastCall.stop, d)

\* A decrementing range with the default step that stops one short of
\* stop.
C14_Witness ==
  /\ lastCall.op = "range"
  /\ lastCall.step = 1
  /\ lastCall.stop < lastCall.start
  /\ Len(lastCall.values) >= 2
  /\ lastCall.values[Len(lastCall.values)] = lastCall.stop + 1

\* C15 as stated: Ops.multinomial throws when the number of outcomes (the
\* length of a 1D probabilities tensor, the second dimension of a 2D one)
\* is less than 2 and when the rank exceeds 2; otherwise the result has
\* the rank of the input.
C15_MultinomialOutcomes ==
  lastCall.op = "multinomial" =>
    LET rank == Len(lastCall.shape)
        numOutcomes == lastCall.shape[IF rank = 1 THEN 1 ELSE 2]
    IN  IF rank > 2 \/ numOutcomes < 2
          THEN lastCall.threw
          ELSE ~lastCall.threw /\ Len(lastCall.result) = rank

(***************************************************************************)
(* Claims about the download mode, checked under SpecDownloadMode.         *)
(***************************************************************************)

\* C16 as stated: whatever flag changes happened since getTextureConfig,
\* the target buffer a download allocates and reads into is a Float32Array
\* iff the descriptor's downloadTextureType is FLOAT and a Uint8Array iff
\* it is UNSIGNED_BYTE, and a download that returns decoded by channel iff
\* FLOAT and by reinterpretation iff UNSIGNED_BYTE.
C16_DownloadModeFromDescriptor ==
  (lastCall.op = "downloadMatrixFromOutputTexture" /\ glLog # <<>>) =>
    /\ glLog[1].target.kind = "Float32Array"
         <=> textureConfig.downloadTextureType = "FLOAT"
    /\ glLog[1].target.kind = "Uint8Array"
         <=> textureConfig.downloadTextureType = "UNSIGNED_BYTE"
    /\ ~lastCall.threw =>
         lastCall.result =
           IF textureConfig.downloadTextureType = "FLOAT"
             THEN decodeMatrixFromUnpackedArray(
                    lastCall.target.data,
                    Zeros(lastCall.rows * lastCall.columns),
                    textureConfig.downloadUnpackNumChannels)
             ELSE Float32View(lastCall.target.data)

(***************************************************************************)
(* Further claims about asynchronous downloads, checked under SpecAsync.   *)
(***************************************************************************)

\* The read command of the last call, when it issued one.
ReadsIssued == { glLog[i] : i \in { j \in 1..Len(glLog) : glLog[j].cmd = "readPixels" } }

\* The read the synchronous download issues for the same rows, columns and
\* descriptor.
SyncRead ==
  downloadMatrixFromOutputTexture(
    Start, lastCall.rows, lastCall.columns, textureConfig, ENV, 0).log[1]

\* C17 as stated: the read an asynchronous download issues has the extent,
\* pixel format and pixel type of the synchronous download's read for the
\* same rows, columns and descriptor, and the pixel-pack buffer was sized
\* to at least texels x 4 channels x bytes per element of the read type.
C17_AsyncReadsLikeSync ==
  AsyncStarted =>
    \A read \in ReadsIssued :
      /\ read.width = SyncRead.width
      /\ read.height = SyncRead.height
      /\ read.format = SyncRead.format
      /\ read.type = SyncRead.type
      /\ \E i \in 1..Len(glLog) :
           /\ glLog[i].cmd = "bufferData"
           /\ glLog[i].size >= read.width * read.height * 4
                                 * BytesPerElement(read.type)

Settled(call) == call.phase \in {"resolved", "rejected"}

\* C18: every asynchronous download has a download target and a
\* pixel-pack buffer of its own and has requested the read of that buffer
\* before it suspends; under every interleaving of the calls a call that
\* resolves holds in its target the data of the read it issued itself.
C18_AsyncCallsIsolated ==
  /\ \A i, j \in 1..Len(asyncCalls) :
       (i # j /\ asyncCalls[i].buffer # NullBuffer)
         => asyncCalls[i].buffer # asyncCalls[j].buffer
  /\ \A i \in 1..Len(asyncCalls) :
       /\ asyncCalls[i].phase \in {"suspended", "completed", "resolved"}
            => asyncCalls[i].buffer \in 1..Len(glBuffers.store)
       /\ asyncCalls[i].phase \in {"completed", "resolved"}
            => asyncCalls[i].downloadTarget.data = asyncCalls[i].issued
  /\ (AsyncStarted /\ ~lastCall.threw) =>
       glLog[Len(glLog)].cmd = "getBufferSubDataAsync"

\* Two calls that read different data overlap: the second has resolved
\* with its own data while the first is still suspended.
C18_Witness ==
  /\ Len(asyncCalls) = 2
  /\ asyncCalls[1].phase = "suspended"
  /\ asyncCalls[2].phase = "resolved"
  /\ asyncCalls[1].issued # asyncCalls[2].issued
  /\ asyncCalls[2].downloadTarget.data = asyncCalls[2].issued
  /\ asyncCalls[2].result # <<>>

====
